---- MODULE Spec2Model ----
(***************************************************************************)
(* Model of the GNU compiler call recognition of Bear (citnames):          *)
(* source/citnames/source/semantic/ToolGcc.cc.                             *)
(*                                                                         *)
(* A command line token, a path and an environment value is a string; TLC  *)
(* evaluates Len, SubSeq and \o on strings, a character is a string of     *)
(* length one.  command.arguments is the token sequence handed to the flag *)
(* stream parser, i.e. the argument vector after the program name.         *)
(***************************************************************************)
EXTENDS Integers, Sequences, FiniteSets, TLC

VARIABLES command, paths, pc, cursor, flags, output, sources, entries, failed, accepted,
          earlier

vars == <<command, paths, pc, cursor, flags, output, sources, entries, failed, accepted,
          earlier>>

(***************************************************************************)
(* Bounds of the explored inputs.                                          *)
(***************************************************************************)
\* longest argument vector drawn from the wide token alphabets
MaxArgs == 3
\* longest argument vector drawn from the narrow token alphabets
MaxFocusArgs == 5

(***************************************************************************)
(* Strings.                                                                *)
(***************************************************************************)
Char(s, i) == SubSeq(s, i, i)

StartsWith(s, k) == Len(k) <= Len(s) /\ SubSeq(s, 1, Len(k)) = k

Drop(s, n) == SubSeq(s, n + 1, Len(s))

RECURSIVE Flatten(_)
Flatten(ss) == IF ss = <<>> THEN <<>> ELSE Head(ss) \o Flatten(Tail(ss))

RECURSIVE SelectIndices(_, _, _)
SelectIndices(s, Keep(_), i) ==
    IF i > Len(s) THEN <<>>
    ELSE (IF Keep(i) THEN <<i>> ELSE <<>>) \o SelectIndices(s, Keep, i + 1)

(***************************************************************************)
(* The flag dictionary, in the order the table is written.                 *)
(***************************************************************************)
Def(name, count, match, equal, type) ==
    [name |-> name, count |-> count, match |-> match, equal |-> equal, type |-> type]

FLAG_DEFINITION ==
    <<
       Def("-x",                 1, "EXACT",   FALSE, "KIND_OF_OUTPUT"),
       Def("-c",                 0, "EXACT",   FALSE, "KIND_OF_OUTPUT_NO_LINKING"),
       Def("-S",                 0, "EXACT",   FALSE, "KIND_OF_OUTPUT_NO_LINKING"),
       Def("-E",                 0, "EXACT",   FALSE, "KIND_OF_OUTPUT_NO_LINKING"),
       Def("-o",                 1, "EXACT",   FALSE, "KIND_OF_OUTPUT_OUTPUT"),
       Def("-dumpbase",          1, "EXACT",   FALSE, "KIND_OF_OUTPUT"),
       Def("-dumpbase-ext",      1, "EXACT",   FALSE, "KIND_OF_OUTPUT"),
       Def("-dumpdir",           1, "EXACT",   FALSE, "KIND_OF_OUTPUT"),
       Def("-v",                 0, "EXACT",   FALSE, "KIND_OF_OUTPUT"),
       Def("-###",               0, "EXACT",   FALSE, "KIND_OF_OUTPUT"),
       Def("--help",             0, "BOTH",    TRUE,  "KIND_OF_OUTPUT_INFO"),
       Def("--target-help",      0, "EXACT",   FALSE, "KIND_OF_OUTPUT_INFO"),
       Def("--version",          0, "EXACT",   FALSE, "KIND_OF_OUTPUT_INFO"),
       Def("-pass-exit-codes",   0, "EXACT",   FALSE, "KIND_OF_OUTPUT"),
       Def("-pipe",              0, "EXACT",   FALSE, "KIND_OF_OUTPUT"),
       Def("-specs",             0, "PARTIAL", TRUE,  "KIND_OF_OUTPUT"),
       Def("-wrapper",           1, "EXACT",   FALSE, "KIND_OF_OUTPUT"),
       Def("-ffile-prefix-map",  0, "PARTIAL", TRUE,  "KIND_OF_OUTPUT"),
       Def("-fplugin",           0, "PARTIAL", TRUE,  "KIND_OF_OUTPUT"),
       Def("@",                  0, "PARTIAL", FALSE, "KIND_OF_OUTPUT"),
       Def("-A",                 1, "BOTH",    FALSE, "PREPROCESSOR"),
       Def("-D",                 1, "BOTH",    FALSE, "PREPROCESSOR"),
       Def("-U",                 1, "BOTH",    FALSE, "PREPROCESSOR"),
       Def("-include",           1, "EXACT",   FALSE, "PREPROCESSOR"),
       Def("-imacros",           1, "EXACT",   FALSE, "PREPROCESSOR"),
       Def("-undef",             0, "EXACT",   FALSE, "PREPROCESSOR"),
       Def("-pthread",           0, "EXACT",   FALSE, "PREPROCESSOR"),
       Def("-M",                 0, "EXACT",   FALSE, "PREPROCESSOR_MAKE"),
       Def("-MM",                0, "EXACT",   FALSE, "PREPROCESSOR_MAKE"),
       Def("-MG",                0, "EXACT",   FALSE, "PREPROCESSOR_MAKE"),
       Def("-MP",                0, "EXACT",   FALSE, "PREPROCESSOR_MAKE"),
       Def("-MD",                0, "EXACT",   FALSE, "PREPROCESSOR_MAKE"),
       Def("-MMD",               0, "EXACT",   FALSE, "PREPROCESSOR_MAKE"),
       Def("-MF",                1, "EXACT",   FALSE, "PREPROCESSOR_MAKE"),
       Def("-MT",                1, "EXACT",   FALSE, "PREPROCESSOR_MAKE"),
       Def("-MQ",                1, "EXACT",   FALSE, "PREPROCESSOR_MAKE"),
       Def("-C",                 0, "EXACT",   FALSE, "PREPROCESSOR"),
       Def("-CC",                0, "EXACT",   FALSE, "PREPROCESSOR"),
       Def("-P",                 0, "EXACT",   FALSE, "PREPROCESSOR"),
       Def("-traditional",       0, "BOTH",    FALSE, "PREPROCESSOR"),
       Def("-trigraphs",         0, "EXACT",   FALSE, "PREPROCESSOR"),
       Def("-remap",             0, "EXACT",   FALSE, "PREPROCESSOR"),
       Def("-H",                 0, "EXACT",   FALSE, "PREPROCESSOR"),
       Def("-Xpreprocessor",     1, "EXACT",   FALSE, "PREPROCESSOR"),
       Def("-Wp,",               0, "PARTIAL", FALSE, "PREPROCESSOR"),
       Def("-I",                 1, "BOTH",    FALSE, "DIRECTORY_SEARCH"),
       Def("-iplugindir",        0, "PARTIAL", TRUE,  "DIRECTORY_SEARCH"),
       Def("-iquote",            1, "EXACT",   FALSE, "DIRECTORY_SEARCH"),
       Def("-isystem",           1, "EXACT",   FALSE, "DIRECTORY_SEARCH"),
       Def("-idirafter",         1, "EXACT",   FALSE, "DIRECTORY_SEARCH"),
       Def("-iprefix",           1, "EXACT",   FALSE, "DIRECTORY_SEARCH"),
       Def("-iwithprefix",       1, "EXACT",   FALSE, "DIRECTORY_SEARCH"),
       Def("-iwithprefixbefore", 1, "EXACT",   FALSE, "DIRECTORY_SEARCH"),
       Def("-isysroot",          1, "EXACT",   FALSE, "DIRECTORY_SEARCH"),
       Def("-imultilib",         1, "EXACT",   FALSE, "DIRECTORY_SEARCH"),
       Def("-L",                 1, "BOTH",    FALSE, "DIRECTORY_SEARCH_LINKER"),
       Def("-B",                 1, "BOTH",    FALSE, "DIRECTORY_SEARCH"),
       Def("--sysroot",          1, "BOTH",    TRUE,  "DIRECTORY_SEARCH"),
       Def("-flinker-output",    0, "PARTIAL", TRUE,  "LINKER"),
       Def("-fuse-ld",           0, "PARTIAL", TRUE,  "LINKER"),
       Def("-l",                 1, "BOTH",    FALSE, "LINKER"),
       Def("-nostartfiles",      0, "EXACT",   FALSE, "LINKER"),
       Def("-nodefaultlibs",     0, "EXACT",   FALSE, "LINKER"),
       Def("-nolibc",            0, "EXACT",   FALSE, "LINKER"),
       Def("-nostdlib",          0, "EXACT",   FALSE, "LINKER"),
       Def("-e",                 1, "EXACT",   FALSE, "LINKER"),
       Def("-entry",             0, "PARTIAL", TRUE,  "LINKER"),
       Def("-pie",               0, "EXACT",   FALSE, "LINKER"),
       Def("-no-pie",            0, "EXACT",   FALSE, "LINKER"),
       Def("-static-pie",        0, "EXACT",   FALSE, "LINKER"),
       Def("-r",                 0, "EXACT",   FALSE, "LINKER"),
       Def("-rdynamic",          0, "EXACT",   FALSE, "LINKER"),
       Def("-s",                 0, "EXACT",   FALSE, "LINKER"),
       Def("-symbolic",          0, "EXACT",   FALSE, "LINKER"),
       Def("-static",            0, "BOTH",    FALSE, "LINKER"),
       Def("-shared",            0, "BOTH",    FALSE, "LINKER"),
       Def("-T",                 1, "EXACT",   FALSE, "LINKER"),
       Def("-Xlinker",           1, "EXACT",   FALSE, "LINKER"),
       Def("-Wl,",               0, "PARTIAL", FALSE, "LINKER"),
       Def("-u",                 1, "EXACT",   FALSE, "LINKER"),
       Def("-z",                 1, "EXACT",   FALSE, "LINKER"),
       Def("-Xassembler",        1, "EXACT",   FALSE, "OTHER"),
       Def("-Wa,",               0, "PARTIAL", FALSE, "OTHER"),
       Def("-ansi",              0, "EXACT",   FALSE, "OTHER"),
       Def("-aux-info",          1, "EXACT",   FALSE, "OTHER"),
       Def("-std",               0, "PARTIAL", TRUE,  "OTHER"),
       Def("-O",                 0, "BOTH",    FALSE, "OTHER"),
       Def("-g",                 0, "BOTH",    FALSE, "OTHER"),
       Def("-f",                 0, "PARTIAL", FALSE, "OTHER"),
       Def("-m",                 0, "PARTIAL", FALSE, "OTHER"),
       Def("-p",                 0, "PARTIAL", FALSE, "OTHER"),
       Def("-W",                 0, "PARTIAL", FALSE, "OTHER"),
       Def("-no",                0, "PARTIAL", FALSE, "OTHER"),
       Def("-tno",               0, "PARTIAL", FALSE, "OTHER"),
       Def("-save",              0, "PARTIAL", FALSE, "OTHER"),
       Def("-d",                 0, "PARTIAL", FALSE, "OTHER"),
       Def("-E",                 0, "PARTIAL", FALSE, "OTHER"),
       Def("-Q",                 0, "PARTIAL", FALSE, "OTHER"),
       Def("-X",                 0, "PARTIAL", FALSE, "OTHER"),
       Def("-Y",                 0, "PARTIAL", FALSE, "OTHER"),
       Def("--",                 0, "PARTIAL", FALSE, "OTHER")
    >>

CompilerFlagType ==
    { "KIND_OF_OUTPUT", "KIND_OF_OUTPUT_NO_LINKING", "KIND_OF_OUTPUT_INFO",
      "KIND_OF_OUTPUT_OUTPUT", "PREPROCESSOR", "PREPROCESSOR_MAKE",
      "DIRECTORY_SEARCH", "DIRECTORY_SEARCH_LINKER", "LINKER", "SOURCE", "OTHER" }

(***************************************************************************)
(* The flag matcher, the source matcher and the catch-all matcher.  A      *)
(* matcher looks at tokens[i] and answers with the classified flag and the *)
(* position after the tokens it consumed.                                  *)
(***************************************************************************)
NoMatch(i) == [ok |-> FALSE, flag |-> [type |-> "OTHER", arguments |-> <<>>], next |-> i]

Matched(type, tokens, i, n) ==
    [ok |-> TRUE,
     flag |-> [type |-> type, arguments |-> SubSeq(tokens, i, i + n - 1)],
     next |-> i + n]

\* does the dictionary key match the token under the key's match mode
KeyMatches(def, token) ==
    LET exact   == token = def.name
        partial == def.name # "" /\ StartsWith(token, def.name)
    IN  CASE def.match = "EXACT"   -> exact
          [] def.match = "PARTIAL" -> partial
          [] def.match = "BOTH"    -> exact \/ partial

\* the number of tokens the key consumes at tokens[i], 0 when it does not match
Consumes(def, tokens, i) ==
    LET token == tokens[i]
    IN  IF ~KeyMatches(def, token) THEN 0
        ELSE IF def.count = 0 THEN 1
        ELSE IF Len(token) > Len(def.name) THEN 1
        ELSE IF def.equal THEN 0
        ELSE IF i + def.count <= Len(tokens) THEN 1 + def.count
        ELSE 0

\* the first key of the dictionary that matches at tokens[i], 0 when none does
lookup(tokens, i) ==
    LET hits == {d \in DOMAIN FLAG_DEFINITION : Consumes(FLAG_DEFINITION[d], tokens, i) > 0}
    IN  IF hits = {} THEN 0 ELSE CHOOSE d \in hits : \A e \in hits : d <= e

FlagParser(tokens, i) ==
    LET d == lookup(tokens, i)
    IN  IF d = 0 THEN NoMatch(i)
        ELSE Matched(FLAG_DEFINITION[d].type, tokens, i,
                     Consumes(FLAG_DEFINITION[d], tokens, i))

SourceMatcher(tokens, i) == Matched("SOURCE", tokens, i, 1)

EverythingElseFlagMatcher(tokens, i) == Matched("OTHER", tokens, i, 1)

\* a parser that knows the dictionary only
parser_flags_only(tokens, i) == FlagParser(tokens, i)

\* OneOf(FlagParser, SourceMatcher, EverythingElseFlagMatcher): first match wins
parser(tokens, i) ==
    LET flag   == FlagParser(tokens, i)
        source == SourceMatcher(tokens, i)
    IN  IF flag.ok THEN flag
        ELSE IF source.ok THEN source
        ELSE EverythingElseFlagMatcher(tokens, i)

(***************************************************************************)
(* Flags synthesized from the environment.                                 *)
(***************************************************************************)
RECURSIVE find(_, _, _)
find(s, c, i) ==
    IF i > Len(s) THEN 0
    ELSE IF Char(s, i) = c THEN i
    ELSE find(s, c, i + 1)

\* sys::path::split: the segments between the path list separators
RECURSIVE split(_)
split(value) ==
    LET current == find(value, ":", 1)
    IN  IF current = 0 THEN <<value>>
        ELSE <<SubSeq(value, 1, current - 1)>> \o split(Drop(value, current))

inserter(value, flag) ==
    LET segments == split(value)
    IN  Flatten([k \in 1..Len(segments) |->
                    <<flag, IF segments[k] = "" THEN "." ELSE segments[k]>>])

\* the variables are read in a different order
flags_from_environment_reordered(environment) ==
    LET from(env, flag) ==
            IF env \in DOMAIN environment THEN inserter(environment[env], flag) ELSE <<>>
    IN  from("C_INCLUDE_PATH", "-I") \o from("CPATH", "-I")
            \o from("CPLUS_INCLUDE_PATH", "-I") \o from("OBJC_INCLUDE_PATH", "-isystem")

flags_from_environment(environment) ==
    LET from(env, flag) ==
            IF env \in DOMAIN environment THEN inserter(environment[env], flag) ELSE <<>>
    IN  from("CPATH", "-I") \o from("C_INCLUDE_PATH", "-I")
            \o from("CPLUS_INCLUDE_PATH", "-I") \o from("OBJC_INCLUDE_PATH", "-isystem")

(***************************************************************************)
(* The compilation pass decision and the source and output extraction.     *)
(***************************************************************************)
NO_COMPILATION_FLAG == {"-M", "-MM", "-E"}

HasType(fs, type) == \E k \in 1..Len(fs) : fs[k].type = type

\* every dependency generation flag counts as no compilation
runs_compilation_pass_any_make(fs) ==
    /\ fs # <<>>
    /\ ~HasType(fs, "KIND_OF_OUTPUT_INFO")
    /\ ~HasType(fs, "PREPROCESSOR_MAKE")

\* the help and version queries are not looked at
runs_compilation_pass_no_info(fs) ==
    /\ fs # <<>>
    /\ ~\E k \in 1..Len(fs) :
            /\ fs[k].type = "PREPROCESSOR_MAKE"
            /\ Head(fs[k].arguments) \in NO_COMPILATION_FLAG

runs_compilation_pass(fs) ==
    /\ fs # <<>>
    /\ ~HasType(fs, "KIND_OF_OUTPUT_INFO")
    /\ ~\E k \in 1..Len(fs) :
            /\ fs[k].type = "PREPROCESSOR_MAKE"
            /\ Head(fs[k].arguments) \in NO_COMPILATION_FLAG

\* optional values are sequences of length 0 or 1
source_file(flag) ==
    IF flag.type = "SOURCE" THEN <<Head(flag.arguments)>> ELSE <<>>

source_files(fs) == Flatten([k \in 1..Len(fs) |-> source_file(fs[k])])

output_file(flag) ==
    IF flag.type = "KIND_OF_OUTPUT_OUTPUT"
    THEN <<flag.arguments[Len(flag.arguments)]>>
    ELSE <<>>

\* the last output flag wins
output_files_last(fs) ==
    LET found == Flatten([k \in 1..Len(fs) |-> output_file(fs[k])])
    IN  IF found = <<>> THEN <<>> ELSE <<found[Len(found)]>>

output_files(fs) ==
    LET found == Flatten([k \in 1..Len(fs) |-> output_file(fs[k])])
    IN  IF found = <<>> THEN <<>> ELSE <<Head(found)>>

(***************************************************************************)
(* The arguments of the entry of one source.                               *)
(***************************************************************************)
type_filter_out(type) ==
    \/ type = "LINKER"
    \/ type = "PREPROCESSOR_MAKE"
    \/ type = "DIRECTORY_SEARCH_LINKER"

source_filter(flag, source) ==
    LET candidate == source_file(flag)
    IN  candidate = <<>> \/ candidate[1] = source

\* the -c is added whatever the flags are
filter_arguments_always_c(fs, source) ==
    <<"-c">> \o Flatten([k \in 1..Len(fs) |->
            IF ~type_filter_out(fs[k].type) /\ source_filter(fs[k], source)
            THEN fs[k].arguments ELSE <<>>])

\* the sources of the other entries are kept
filter_arguments_all_sources(fs, source) ==
    LET no_linking == HasType(fs, "KIND_OF_OUTPUT_NO_LINKING")
    IN  (IF ~no_linking THEN <<"-c">> ELSE <<>>)
        \o Flatten([k \in 1..Len(fs) |->
            IF ~type_filter_out(fs[k].type) THEN fs[k].arguments ELSE <<>>])

\* a dropped flag leaves its value behind
filter_arguments_value_left(fs, source) ==
    LET no_linking == HasType(fs, "KIND_OF_OUTPUT_NO_LINKING")
    IN  (IF ~no_linking THEN <<"-c">> ELSE <<>>)
        \o Flatten([k \in 1..Len(fs) |->
            IF ~source_filter(fs[k], source) THEN <<>>
            ELSE IF type_filter_out(fs[k].type) THEN Tail(fs[k].arguments)
            ELSE fs[k].arguments])

filter_arguments(fs, source) ==
    LET no_linking == HasType(fs, "KIND_OF_OUTPUT_NO_LINKING")
    IN  (IF ~no_linking THEN <<"-c">> ELSE <<>>)
        \o Flatten([k \in 1..Len(fs) |->
            IF ~type_filter_out(fs[k].type) /\ source_filter(fs[k], source)
            THEN fs[k].arguments ELSE <<>>])

(***************************************************************************)
(* Paths.                                                                  *)
(***************************************************************************)
is_absolute(path) == StartsWith(path, "/")

\* fs::path operator/ with a relative right hand side
PathJoin(directory, path) ==
    IF directory = "" THEN path
    ELSE IF Char(directory, Len(directory)) = "/" THEN directory \o path
    ELSE directory \o "/" \o path

\* a path that is absolute already is joined to the directory as well
make_absolute_always_joined(entry) ==
    [entry EXCEPT !.file = PathJoin(entry.directory, entry.file),
                  !.output = IF entry.output # <<>>
                             THEN <<PathJoin(entry.directory, entry.output[1])>> ELSE <<>>]

make_absolute(entry) ==
    LET transform(path) ==
            IF is_absolute(path) THEN path ELSE PathJoin(entry.directory, path)
    IN  [entry EXCEPT !.file = transform(entry.file),
                      !.output = IF entry.output # <<>>
                                 THEN <<transform(entry.output[1])>> ELSE <<>>]

RECURSIVE rfind(_, _, _)
rfind(s, c, i) ==
    IF i = 0 THEN 0
    ELSE IF Char(s, i) = c THEN i
    ELSE rfind(s, c, i - 1)

\* fs::path::filename
filename(path) == Drop(path, rfind(path, "/", Len(path)))

(***************************************************************************)
(* The executable name patterns.  A pattern is run over the name as a set  *)
(* of positions: the positions the sub-expression can end at when it       *)
(* starts at one of the positions of P.                                    *)
(***************************************************************************)
Digit == {"0", "1", "2", "3", "4", "5", "6", "7", "8", "9"}

\* a literal
After(s, P, lit) ==
    {p + Len(lit) : p \in {q \in P : q + Len(lit) <= Len(s)
                                      /\ SubSeq(s, q + 1, q + Len(lit)) = lit}}

\* \d+
Digits(s, P) ==
    {q \in 1..Len(s) : \E p \in P : p < q /\ \A k \in (p + 1)..q : Char(s, k) \in Digit}

\* ([^-]*-)* from the start of the name
Segments(s) == {0} \cup {i \in 1..Len(s) : Char(s, i) = "-"}

\* (-\d+(\.\d+){0,2})? : the hyphen is needed
Version_hyphen(s, P) ==
    LET n1 == Digits(s, After(s, P, "-"))
        n2 == Digits(s, After(s, n1, "."))
        n3 == Digits(s, After(s, n2, "."))
    IN  P \cup n1 \cup n2 \cup n3

\* (-?\d+(\.\d+){0,2})?
Version(s, P) ==
    LET n1 == Digits(s, P \cup After(s, P, "-"))
        n2 == Digits(s, After(s, n1, "."))
        n3 == Digits(s, After(s, n2, "."))
    IN  P \cup n1 \cup n2 \cup n3

match_executable_name(program) ==
    LET basename == filename(program)
        stem(names) == UNION {After(basename, Segments(basename), n) : n \in names}
    IN  \/ basename \in {"cc", "c++", "cxx", "CC"}
        \/ Len(basename) \in Version(basename, stem({"mcc", "gcc"}))
        \/ Len(basename) \in Version(basename, stem({"m++", "g++"}))
        \/ Len(basename) \in Version(basename, stem({"gfortran", "fortran"}))

\* the allow-list is not consulted
recognize_pattern_only(known, program) == match_executable_name(program)

recognize(known, program) ==
    (\E k \in 1..Len(known) : known[k] = program) \/ match_executable_name(program)

(***************************************************************************)
(* The commands the model is run on.                                       *)
(***************************************************************************)
SeqsUpTo(T, n) == UNION {[1..k -> T] : k \in 0..n}

\* longest argument vector run under every environment
MaxEnvArgs == 2

ParseTokens == {"-o", "out", "-I", "-Ia", "--sysroot", "+x", "a.c"}

InfoTokens == {"--version", "--help", "--target-help", "--help=x", "-c", "a.c", "-o"}

LinkTokens == {"-c", "-S", "-E", "-Efoo", "foo.c", "-o", "foo"}

FilterTokens == {"-Wl,--as-needed", "-l", "m", "-L", "-MF", "a.c", "-O2"}

FocusTokens == {"-o", "out", "x.c", "/abs/y.c"}

EnvTokens == {"-c", "a.c", "b.c"}

MakeFlags == {"-M", "-MM", "-MD", "-MMD", "-MG", "-MP", "-MF", "-MT", "-MQ"}

MakeTokens == {"x", "-c", "a.c"}

\* one dependency generation flag among other tokens
MakeArguments ==
    {before \o <<make>> \o after :
        before \in SeqsUpTo(MakeTokens, 1), make \in MakeFlags,
        after \in SeqsUpTo(MakeTokens, MaxArgs - 1)}

Examples ==
    { <<"-Ia", "-Ib", "-c", "x.c", "y.c", "-o", "out">>,
      <<"-Wl,--as-needed", "-c", "a.c">>,
      <<"-MF", "x", "-MT", "x", "-MQ", "x", "-c", "a.c">>,
      <<"-MD", "-M", "-c", "a.c">>,
      <<"-o", "first", "-c", "a.c", "-o", "second">>,
      <<"--sysroot=/r", "-std=c99", "-isystem", "inc", "-DX", "-D", "Y", "b.c">> }

EnvValues ==
    [CPATH               |-> {"/usr/x:/usr/y", ":/opt/thing"},
     C_INCLUDE_PATH      |-> {"/ci"},
     CPLUS_INCLUDE_PATH  |-> {"/cp::/cq"},
     OBJC_INCLUDE_PATH   |-> {"/objc:/o2"},
     HOME                |-> {"/root:/x"}]

Environments ==
    UNION {{e \in [D -> UNION {EnvValues[n] : n \in D}] : \A n \in D : e[n] \in EnvValues[n]}
           : D \in SUBSET (DOMAIN EnvValues)}

NoEnvironment == CHOOSE e \in Environments : DOMAIN e = {}

Commands ==
    LET make(programs, arguments, dirs, environments) ==
            [program : programs, arguments : arguments,
             working_dir : dirs, environment : environments]
        plain(arguments) == make({"/usr/bin/gcc"}, arguments, {"/work"}, {NoEnvironment})
    IN  plain(SeqsUpTo(ParseTokens, MaxArgs))
        \cup plain(SeqsUpTo(InfoTokens, MaxArgs))
        \cup plain(SeqsUpTo(LinkTokens, MaxArgs))
        \cup plain(SeqsUpTo(FilterTokens, MaxArgs))
        \cup plain(MakeArguments)
        \cup plain(SeqsUpTo(FocusTokens, MaxFocusArgs))
        \cup make({"cc"}, SeqsUpTo(EnvTokens, MaxEnvArgs), {"/work"}, Environments)
        \cup make({"cc", "/usr/bin/g++"}, Examples, {"/work", "/home/user/", "build"},
                  {e \in Environments : DOMAIN e \subseteq {"CPATH"}})

Init ==
    /\ command \in Commands
    /\ paths = <<>>
    /\ pc = "parse"
    /\ cursor = 1
    /\ flags = <<>>
    /\ output = <<>>
    /\ sources = <<>>
    /\ entries = <<>>
    /\ failed = FALSE
    /\ accepted = FALSE
    /\ earlier = <<>>

(***************************************************************************)
(* compilations: parse the flags, decide, and make one entry per source.   *)
(***************************************************************************)
\* one round of Repeat(OneOf(...)) over the arguments
parse ==
    /\ pc = "parse"
    /\ cursor <= Len(command.arguments)
    /\ LET match == parser(command.arguments, cursor)
       IN  IF match.ok
           THEN /\ flags' = Append(flags, match.flag)
                /\ cursor' = match.next
                /\ UNCHANGED <<pc, failed>>
           ELSE /\ pc' = "done"
                /\ failed' = TRUE
                /\ UNCHANGED <<flags, cursor>>
    /\ UNCHANGED <<command, paths, output, sources, entries, accepted, earlier>>

\* the flags are parsed: no compilation pass, or no source, gives no entry
compilations ==
    /\ pc = "parse"
    /\ cursor > Len(command.arguments)
    /\ IF ~runs_compilation_pass(flags)
       THEN /\ pc' = "done"
            /\ UNCHANGED <<output, sources>>
       ELSE /\ output' = output_files(flags)
            /\ sources' = source_files(flags)
            /\ pc' = IF source_files(flags) = <<>> THEN "done" ELSE "entries"
    /\ UNCHANGED <<command, paths, cursor, flags, entries, failed, accepted, earlier>>

\* the flags from the environment are put in front of the flags of the command
entry_environment_first ==
    /\ pc = "entries"
    /\ Len(entries) < Len(sources)
    /\ LET source    == sources[Len(entries) + 1]
           arguments == <<command.program>> \o flags_from_environment(command.environment)
                            \o filter_arguments(flags, source)
       IN  entries' = Append(entries,
                make_absolute([file |-> source, directory |-> command.working_dir,
                               output |-> output, arguments |-> arguments]))
    /\ UNCHANGED <<command, paths, pc, cursor, flags, output, sources, failed, accepted, earlier>>

\* the entry of the next source
entry ==
    /\ pc = "entries"
    /\ Len(entries) < Len(sources)
    /\ LET source    == sources[Len(entries) + 1]
           arguments == <<command.program>> \o filter_arguments(flags, source)
                            \o flags_from_environment(command.environment)
       IN  entries' = Append(entries,
                make_absolute([file |-> source, directory |-> command.working_dir,
                               output |-> output, arguments |-> arguments]))
    /\ UNCHANGED <<command, paths, pc, cursor, flags, output, sources, failed, accepted, earlier>>

return ==
    /\ pc = "entries"
    /\ Len(entries) = Len(sources)
    /\ pc' = "done"
    /\ UNCHANGED <<command, paths, cursor, flags, output, sources, entries, failed, accepted, earlier>>

Next == parse \/ compilations \/ entry \/ return

(***************************************************************************)
(* The same tool asked about a second command that differs from the first  *)
(* in its environment only; what the first call returned is kept in        *)
(* earlier.                                                                *)
(***************************************************************************)
\* longest argument vector of a command that is run a second time
MaxAgainArgs == 2

AgainTokens == {"-c", "a.c", "b.c", "--version", "-M"}

SecondEnvironments ==
    {e \in Environments : DOMAIN e \subseteq {"CPATH", "OBJC_INCLUDE_PATH"}}

InitEnvironment ==
    /\ command \in [program : {"cc"}, arguments : SeqsUpTo(AgainTokens, MaxAgainArgs),
                    working_dir : {"/work"}, environment : Environments]
                   \cup [program : {"/usr/bin/g++"}, arguments : Examples,
                         working_dir : {"build"},
                         environment : {e \in Environments : DOMAIN e \subseteq {"CPATH"}}]
    /\ paths = <<>>
    /\ pc = "parse"
    /\ cursor = 1
    /\ flags = <<>>
    /\ output = <<>>
    /\ sources = <<>>
    /\ entries = <<>>
    /\ failed = FALSE
    /\ accepted = FALSE
    /\ earlier = <<>>

again ==
    /\ pc = "done"
    /\ earlier = <<>>
    /\ earlier' = <<[command |-> command, flags |-> flags, failed |-> failed,
                     entries |-> entries]>>
    /\ \E environment \in SecondEnvironments :
            command' = [command EXCEPT !.environment = environment]
    /\ pc' = "parse"
    /\ cursor' = 1
    /\ flags' = <<>>
    /\ output' = <<>>
    /\ sources' = <<>>
    /\ entries' = <<>>
    /\ failed' = FALSE
    /\ UNCHANGED <<paths, accepted>>

NextEnvironment == parse \/ compilations \/ entry \/ return \/ again

SpecEnvironment == InitEnvironment /\ [][NextEnvironment]_vars

Spec == Init /\ [][Next]_vars

TypeOK ==
    /\ pc \in {"parse", "entries", "done", "recognize"}
    /\ cursor \in 1..(Len(command.arguments) + 1)
    /\ \A k \in 1..Len(flags) : flags[k].type \in CompilerFlagType
    /\ failed \in BOOLEAN

(***************************************************************************)
(* recognize: the programs it is asked about and the lists of known        *)
(* compilers the tool is constructed with.                                 *)
(***************************************************************************)
Programs ==
    {dir \o prefix \o stem \o suffix :
        dir \in {"", "/usr/bin/"},
        prefix \in {"", "x86_64-linux-gnu-", "x"},
        stem \in {"cc", "c++", "cxx", "CC", "gcc", "mcc", "g++", "m++",
                  "gfortran", "fortran", "ld", "clang"},
        suffix \in {"", "9", "-9", "-11", "11.2", "-9.3", "-9.3.1", "-9.3.1.2",
                    "-", "-9.", ".9", "-x"}}

KnownCompilers == {<<>>, <<"/usr/bin/ld", "/usr/bin/clang-11">>}

InitRecognize ==
    /\ command \in [program : Programs, arguments : {<<>>},
                    working_dir : {"/work"}, environment : {NoEnvironment}]
    /\ paths \in KnownCompilers
    /\ pc = "recognize"
    /\ cursor = 1
    /\ flags = <<>>
    /\ output = <<>>
    /\ sources = <<>>
    /\ entries = <<>>
    /\ failed = FALSE
    /\ accepted = FALSE
    /\ earlier = <<>>

Recognizer ==
    /\ pc = "recognize"
    /\ accepted' = recognize(paths, command.program)
    /\ pc' = "done"
    /\ UNCHANGED <<command, paths, cursor, flags, output, sources, entries, failed, earlier>>

SpecRecognize == InitRecognize /\ [][Recognizer]_vars

(***************************************************************************)
(* Properties.                                                             *)
(***************************************************************************)
Done == pc = "done"

Count(x, s) == Cardinality({k \in 1..Len(s) : s[k] = x})

RECURSIVE Sum(_, _)
Sum(F(_), n) == IF n = 0 THEN 0 ELSE F(n) + Sum(F, n - 1)

SourceIndices == SelectIndices(flags, LAMBDA k : flags[k].type = "SOURCE", 1)

NoLinking == \E k \in 1..Len(flags) : flags[k].type = "KIND_OF_OUTPUT_NO_LINKING"

\* the entry that is all there is for the arguments
OnlyEntryArguments(arguments, expected) ==
    (Done /\ command.arguments = arguments /\ command.environment = NoEnvironment)
        => /\ Len(entries) = 1
           /\ entries[1].arguments = <<command.program>> \o expected

\* C1: the classified flags consume each token of the argument vector exactly
\* once and in order: no flag has empty arguments, the arguments of the flags
\* so far concatenate to the tokens before the cursor, and when parsing is
\* over they concatenate to the whole argument vector.
C1_TokensConsumedOnce ==
    /\ \A k \in 1..Len(flags) : flags[k].arguments # <<>>
    /\ Flatten([k \in 1..Len(flags) |-> flags[k].arguments])
            = SubSeq(command.arguments, 1, cursor - 1)
    /\ Sum(LAMBDA k : Len(flags[k].arguments), Len(flags)) = cursor - 1
    /\ pc # "parse" => Flatten([k \in 1..Len(flags) |-> flags[k].arguments])
                            = command.arguments

C1_Witness ==
    /\ Done
    /\ ~failed
    /\ command.arguments = <<"-o", "out", "a.c">>
    /\ Len(flags) = 2
    /\ flags[1].arguments = <<"-o", "out">>

\* C2: every entry's arguments start with the program, and a -c that is not
\* one of the command's tokens follows it exactly when no flag is of category
\* KIND_OF_OUTPUT_NO_LINKING (-c, -S, -E).
C2_SyntheticCompileOnly ==
    Done =>
        /\ \A i \in 1..Len(entries) :
            LET arguments == entries[i].arguments
                kept(k) == IF ~type_filter_out(flags[k].type)
                              /\ (flags[k].type = "SOURCE" => flags[k].arguments[1] = sources[i])
                           THEN Len(flags[k].arguments) ELSE 0
                replayed == Sum(kept, Len(flags))
                             + Len(flags_from_environment(command.environment))
            IN  /\ arguments[1] = command.program
                /\ NoLinking => Len(arguments) = 1 + replayed
                /\ ~NoLinking => Len(arguments) = 2 + replayed /\ arguments[2] = "-c"
        /\ OnlyEntryArguments(<<"-c", "foo.c">>, <<"-c", "foo.c">>)
        /\ OnlyEntryArguments(<<"-S", "foo.c">>, <<"-S", "foo.c">>)
        /\ OnlyEntryArguments(<<"foo.c", "-o", "foo">>, <<"-c", "foo.c", "-o", "foo">>)

C2_Witness ==
    /\ Done
    /\ command.arguments = <<"foo.c", "-o", "foo">>
    /\ Len(entries) = 1
    /\ entries[1].arguments = <<"/usr/bin/gcc", "-c", "foo.c", "-o", "foo">>

\* C3: with no classified flag, or with a flag of category KIND_OF_OUTPUT_INFO
\* (--help, --target-help, --version), compilations succeeds with no entry,
\* whatever else is on the command line.
C3_InfoQueryNoEntries ==
    (Done /\ (flags = <<>> \/ \E k \in 1..Len(flags) : flags[k].type = "KIND_OF_OUTPUT_INFO"))
        => entries = <<>> /\ ~failed

C3_Witness ==
    /\ Done
    /\ command.arguments = <<"-c", "a.c", "--version">>
    /\ Len(flags) = 3
    /\ flags[2].type = "SOURCE"
    /\ flags[3].type = "KIND_OF_OUTPUT_INFO"
    /\ entries = <<>>

MakeFlagsOf(names) ==
    \E k \in 1..Len(flags) :
        flags[k].type = "PREPROCESSOR_MAKE" /\ flags[k].arguments[1] \in names

\* C4: a command with the flag -M or -MM has no entry, also with -c and
\* sources; the other PREPROCESSOR_MAKE flags (-MD, -MMD, -MG, -MP, -MF x,
\* -MT x, -MQ x) do not suppress the compilation: without -M, -MM and an info
\* query there is one entry per source.
C4_DependencyOnly ==
    Done =>
        /\ MakeFlagsOf({"-M", "-MM"}) => entries = <<>>
        /\ ( /\ MakeFlagsOf({"-MD", "-MMD", "-MG", "-MP", "-MF", "-MT", "-MQ"})
             /\ ~MakeFlagsOf({"-M", "-MM"})
             /\ ~\E k \in 1..Len(flags) : flags[k].type = "KIND_OF_OUTPUT_INFO" )
           => Len(entries) = Len(SourceIndices)
        /\ command.arguments = <<"-M", "-c", "a.c">> => entries = <<>>
        /\ command.arguments = <<"-MD", "-c", "a.c">> => Len(entries) = 1

C4_Witness ==
    /\ Done
    /\ command.arguments = <<"-MD", "-c", "a.c">>
    /\ flags[1].type = "PREPROCESSOR_MAKE"
    /\ Len(entries) = 1

EndsWith(s, k) == Len(k) <= Len(s) /\ Drop(s, Len(s) - Len(k)) = k

\* result is path, made absolute against the directory
Resolved(path, directory, result) ==
    IF StartsWith(path, "/") THEN result = path
    ELSE /\ StartsWith(result, directory)
         /\ EndsWith(result, path)
         /\ Len(result) = Len(directory) + Len(path)
                + (IF EndsWith(directory, "/") THEN 0 ELSE 1)

InfoQuery == \E k \in 1..Len(flags) : flags[k].type = "KIND_OF_OUTPUT_INFO"

CompilationPass == flags # <<>> /\ ~InfoQuery /\ ~MakeFlagsOf({"-M", "-MM"})

SourcePath(i) == flags[SourceIndices[i]].arguments[1]

EnvironmentTail == flags_from_environment(command.environment)

\* the tokens of the entries that do not come from a source flag
TokensElsewhere ==
    <<command.program>>
        \o Flatten([k \in 1..Len(flags) |->
                IF flags[k].type = "SOURCE" THEN <<>> ELSE flags[k].arguments])
        \o EnvironmentTail

\* C5: a command that runs a compilation pass has one entry per SOURCE flag,
\* in command line order; the file of the i-th entry is the i-th source made
\* absolute against the working directory, its arguments hold that source
\* and no token of a source flag with another path, and the entries agree on
\* output and directory.
C5_OneEntryPerSource ==
    (Done /\ CompilationPass) =>
        /\ Len(entries) = Len(SourceIndices)
        /\ \A i \in 1..Len(entries) :
            /\ Resolved(SourcePath(i), command.working_dir, entries[i].file)
            /\ Count(SourcePath(i), entries[i].arguments) >= 1
            /\ \A j \in 1..Len(SourceIndices) :
                    SourcePath(j) # SourcePath(i)
                        => Count(SourcePath(j), entries[i].arguments)
                                <= Count(SourcePath(j), TokensElsewhere)
            /\ entries[i].output = entries[1].output
            /\ entries[i].directory = command.working_dir
        /\ command.arguments = <<"-Ia", "-Ib", "-c", "x.c", "y.c", "-o", "out">>
            => /\ Len(entries) = 2
               /\ SubSeq(entries[1].arguments, 2, 7) = <<"-Ia", "-Ib", "-c", "x.c", "-o", "out">>
               /\ SubSeq(entries[2].arguments, 2, 7) = <<"-Ia", "-Ib", "-c", "y.c", "-o", "out">>
               /\ EndsWith(entries[1].file, "/x.c") /\ EndsWith(entries[2].file, "/y.c")
               /\ EndsWith(entries[1].output[1], "/out") /\ EndsWith(entries[2].output[1], "/out")

C5_Witness ==
    /\ Done
    /\ command.arguments = <<"-Ia", "-Ib", "-c", "x.c", "y.c", "-o", "out">>
    /\ command.working_dir = "/work"
    /\ Len(entries) = 2
    /\ entries[1].file = "/work/x.c"
    /\ entries[2].file = "/work/y.c"

\* the tokens of the flags that are replayed for the source
KeptTokens(source) ==
    LET keep(k) == /\ flags[k].type \notin {"LINKER", "PREPROCESSOR_MAKE", "DIRECTORY_SEARCH_LINKER"}
                   /\ flags[k].type = "SOURCE" => flags[k].arguments[1] = source
        kept    == SelectIndices(flags, keep, 1)
    IN  Flatten([n \in 1..Len(kept) |-> flags[kept[n]].arguments])

\* C6: between the program (and the synthetic -c) and the flags from the
\* environment, the arguments of the entry of source S are the arguments, in
\* order, of the flags that are not of category LINKER, PREPROCESSOR_MAKE or
\* DIRECTORY_SEARCH_LINKER and not a source other than S; a dropped flag goes
\* with its value.
C6_FilteredArguments ==
    Done =>
        /\ \A i \in 1..Len(entries) :
                entries[i].arguments
                    = <<command.program>> \o (IF NoLinking THEN <<>> ELSE <<"-c">>)
                        \o KeptTokens(SourcePath(i)) \o EnvironmentTail
        /\ OnlyEntryArguments(<<"-Wl,--as-needed", "-c", "a.c">>, <<"-c", "a.c">>)
        /\ OnlyEntryArguments(<<"-l", "m", "a.c">>, <<"-c", "a.c">>)
        /\ OnlyEntryArguments(<<"-L", "m", "a.c">>, <<"-c", "a.c">>)
        /\ OnlyEntryArguments(<<"-MF", "m", "a.c">>, <<"-c", "a.c">>)
        /\ OnlyEntryArguments(<<"-O2", "a.c", "-Wl,--as-needed">>, <<"-c", "-O2", "a.c">>)

C6_Witness ==
    /\ Done
    /\ command.arguments = <<"-l", "m", "a.c">>
    /\ Len(entries) = 1
    /\ entries[1].arguments = <<"/usr/bin/gcc", "-c", "a.c">>

EnvironmentOrder == <<"CPATH", "C_INCLUDE_PATH", "CPLUS_INCLUDE_PATH", "OBJC_INCLUDE_PATH">>

\* the tokens the n-th variable stands for: two per segment of its value
TailLength(n) ==
    IF EnvironmentOrder[n] \in DOMAIN command.environment
    THEN 2 * (1 + Count(":", [k \in 1..Len(command.environment[EnvironmentOrder[n]]) |->
                                Char(command.environment[EnvironmentOrder[n]], k)]))
    ELSE 0

RECURSIVE JoinDirectories(_)
JoinDirectories(dirs) ==
    LET segment == IF Head(dirs) = "." THEN "" ELSE Head(dirs)
    IN  IF Len(dirs) = 1 THEN segment ELSE segment \o ":" \o JoinDirectories(Tail(dirs))

\* C7: the arguments of every entry end, after the flags of the command, with
\* the flags from the environment: for CPATH, C_INCLUDE_PATH,
\* CPLUS_INCLUDE_PATH in that order -I and a directory per segment of the
\* value, then -isystem and a directory per segment of OBJC_INCLUDE_PATH, an
\* empty segment being "."; nothing when none of them is set.
C7_EnvironmentTail ==
    Done =>
        \A i \in 1..Len(entries) :
            LET arguments == entries[i].arguments
                original  == 1 + Len(filter_arguments(flags, sources[i]))
                tail      == Drop(arguments, original)
            IN  /\ SubSeq(arguments, 1, original)
                        = <<command.program>> \o filter_arguments(flags, sources[i])
                /\ Len(tail) = Sum(TailLength, 4)
                /\ \A n \in 1..4 :
                    LET block == SubSeq(tail, Sum(TailLength, n - 1) + 1, Sum(TailLength, n))
                    IN  block # <<>> =>
                          /\ \A k \in 1..Len(block) :
                                k % 2 = 1 => block[k] = IF n = 4 THEN "-isystem" ELSE "-I"
                          /\ JoinDirectories([k \in 1..(Len(block) \div 2) |-> block[2 * k]])
                                = command.environment[EnvironmentOrder[n]]
                /\ DOMAIN command.environment = {"CPATH"}
                      /\ command.environment["CPATH"] = "/usr/x:/usr/y"
                    => tail = <<"-I", "/usr/x", "-I", "/usr/y">>
                /\ DOMAIN command.environment \cap {"CPATH", "C_INCLUDE_PATH",
                        "CPLUS_INCLUDE_PATH", "OBJC_INCLUDE_PATH"} = {}
                    => tail = <<>>

C7_Witness ==
    /\ Done
    /\ command.arguments = <<"-c", "a.c">>
    /\ DOMAIN command.environment = {"CPATH", "C_INCLUDE_PATH", "OBJC_INCLUDE_PATH", "HOME"}
    /\ command.environment["CPATH"] = ":/opt/thing"
    /\ Len(entries) = 1
    /\ entries[1].arguments = <<"cc", "-c", "a.c", "-I", ".", "-I", "/opt/thing",
                                "-I", "/ci", "-isystem", "/objc", "-isystem", "/o2">>

\* the keys of the dictionary that take a value
TakesValue(token) ==
    \E d \in DOMAIN FLAG_DEFINITION :
        FLAG_DEFINITION[d].name = token /\ FLAG_DEFINITION[d].count = 1

\* C9: compilations never fails: the parser reaches the end of the tokens
\* for every argument vector, and a flag that takes a value but stands
\* without one (a trailing -o or -I, --sysroot with nothing glued to it) is
\* classified SOURCE or OTHER.
C9_NeverAnError ==
    /\ ~failed
    /\ Done => cursor = Len(command.arguments) + 1
    /\ \A k \in 1..Len(flags) :
            (Len(flags[k].arguments) = 1 /\ TakesValue(flags[k].arguments[1]))
                => flags[k].type \in {"SOURCE", "OTHER"}

C9_Witness ==
    /\ Done
    /\ ~failed
    /\ command.arguments = <<"+x", "--sysroot", "-o">>
    /\ flags[1].type = "SOURCE"
    /\ flags[2].type = "OTHER"
    /\ flags[3].type = "SOURCE"
    /\ Len(entries) = 2

OutputIndices == SelectIndices(flags, LAMBDA k : flags[k].type = "KIND_OF_OUTPUT_OUTPUT", 1)

Contains(s, part) ==
    \E p \in 0..(Len(s) - Len(part)) : SubSeq(s, p + 1, p + Len(part)) = part

\* C10: the output of every entry is the last token of the first
\* KIND_OF_OUTPUT_OUTPUT flag of the command line, made absolute; the later
\* output flags do not change it and are still among the arguments; without
\* such a flag no entry has an output.
C10_FirstOutputWins ==
    Done =>
        \A i \in 1..Len(entries) :
            /\ OutputIndices = <<>> => entries[i].output = <<>>
            /\ OutputIndices # <<>> =>
                /\ Len(entries[i].output) = 1
                /\ LET first == flags[OutputIndices[1]].arguments
                   IN  Resolved(first[Len(first)], command.working_dir, entries[i].output[1])
                /\ \A n \in 1..Len(OutputIndices) :
                        Contains(entries[i].arguments, flags[OutputIndices[n]].arguments)
            /\ command.arguments = <<"-o", "first", "-c", "a.c", "-o", "second">>
                => /\ EndsWith(entries[i].output[1], "/first")
                   /\ SubSeq(entries[i].arguments, 2, 7) = command.arguments

C10_Witness ==
    /\ Done
    /\ command.arguments = <<"-o", "first", "-c", "a.c", "-o", "second">>
    /\ command.working_dir = "/work"
    /\ Len(entries) = 1
    /\ entries[1].output = <<"/work/first">>

Known == \E k \in 1..Len(paths) : paths[k] = command.program

\* the part of the path after its last separator
Basename(path) ==
    CHOOSE name \in {Drop(path, j) : j \in 0..Len(path)} :
        /\ \A k \in 1..Len(name) : Char(name, k) # "/"
        /\ Len(name) = Len(path) \/ Char(path, Len(path) - Len(name)) = "/"

\* \d+(\.\d+){0,2}
Numbers(w) ==
    /\ w # ""
    /\ \A k \in 1..Len(w) : Char(w, k) \in Digit \cup {"."}
    /\ Char(w, 1) \in Digit /\ Char(w, Len(w)) \in Digit
    /\ \A k \in 1..(Len(w) - 1) : ~(Char(w, k) = "." /\ Char(w, k + 1) = ".")
    /\ Cardinality({k \in 1..Len(w) : Char(w, k) = "."}) <= 2

\* a stem after hyphen closed segments, and an optional version
Named(name, stems, hyphen) ==
    \E i \in 0..Len(name), stem \in stems :
        /\ i = 0 \/ Char(name, i) = "-"
        /\ i + Len(stem) <= Len(name)
        /\ SubSeq(name, i + 1, i + Len(stem)) = stem
        /\ LET version == Drop(name, i + Len(stem))
           IN  \/ version = ""
               \/ StartsWith(version, "-") /\ Numbers(Drop(version, 1))
               \/ ~hyphen /\ Numbers(version)

Compiler(name, hyphen) ==
    \/ name \in {"cc", "c++", "cxx", "CC"}
    \/ Named(name, {"mcc", "gcc"}, hyphen)
    \/ Named(name, {"m++", "g++"}, hyphen)
    \/ Named(name, {"gfortran", "fortran"}, hyphen)

\* C8 as claimed: recognize is true exactly for a program of the list of
\* known compilers or a basename that matches one of the four patterns, a
\* version being introduced by a hyphen (gcc9 is rejected).
C8_RecognizeHyphenNeeded ==
    Done => (accepted <=> (Known \/ Compiler(Basename(command.program), TRUE)))

\* C8: recognize is true exactly for a program of the list of known compilers
\* or a basename that matches one of the four patterns, where the hyphen
\* before the version is optional: x86_64-linux-gnu-g++-11, gcc-9 and gcc9
\* are accepted, ld is rejected unless it is listed.
C8_Recognize ==
    Done =>
        /\ accepted <=> (Known \/ Compiler(Basename(command.program), FALSE))
        /\ command.program \in {"/usr/bin/x86_64-linux-gnu-g++-11", "gcc-9", "gcc9"}
                => accepted
        /\ (command.program = "/usr/bin/ld" /\ paths = <<>>) => ~accepted

C8_Witness ==
    /\ Done
    /\ command.program = "gcc9"
    /\ paths = <<>>
    /\ accepted

\* the directory and the path with one separator between them
Joined(directory, path) ==
    IF EndsWith(directory, "/") THEN directory \o path ELSE directory \o "/" \o path

\* what make_absolute is to make of a path
Absolute(path) ==
    IF Char(path, 1) = "/" THEN path ELSE Joined(command.working_dir, path)

\* C11: in every entry the directory is the working directory of the command
\* as given; file and output are the source and the output path when these
\* are absolute and the working directory joined with them when they are
\* relative, hence absolute when the working directory is; the source token
\* among the arguments is the one of the command line.
C11_AbsolutePaths ==
    Done =>
        \A i \in 1..Len(entries) :
            LET written == IF OutputIndices = <<>> THEN <<>>
                           ELSE <<flags[OutputIndices[1]].arguments[2]>>
            IN  /\ entries[i].directory = command.working_dir
                /\ entries[i].file = Absolute(SourcePath(i))
                /\ Len(entries[i].output) = Len(written)
                /\ written # <<>> => entries[i].output[1] = Absolute(written[1])
                /\ Char(command.working_dir, 1) = "/"
                    => /\ Char(entries[i].file, 1) = "/"
                       /\ \A k \in 1..Len(entries[i].output) :
                                Char(entries[i].output[k], 1) = "/"
                /\ Count(SourcePath(i), entries[i].arguments) >= 1
                /\ entries[i].file # SourcePath(i)
                    => Count(entries[i].file, entries[i].arguments)
                            <= Count(entries[i].file, TokensElsewhere)

C11_Witness ==
    /\ Done
    /\ command.arguments = <<"x.c", "-o", "/abs/y.c", "/abs/y.c">>
    /\ command.working_dir = "/work"
    /\ Len(entries) = 2
    /\ entries[1].file = "/work/x.c"
    /\ entries[2].file = "/abs/y.c"
    /\ entries[1].output = <<"/abs/y.c">>
    /\ entries[1].arguments = <<"/usr/bin/gcc", "-c", "x.c", "-o", "/abs/y.c">>

\* C12: -E is a no compilation flag like -M and -MM: a command with the
\* token -E as a flag is not a compilation pass and has no entry.
C12_PreprocessOnlyNoEntries ==
    (Done /\ \E k \in 1..Len(flags) : flags[k].arguments = <<"-E">>)
        => entries = <<>>

\* the number of tokens that stand for the environment: two per segment of
\* each of the four variables that is set
SynthesizedLength(environment) ==
    LET segments(name) ==
            IF name \in DOMAIN environment
            THEN 1 + Cardinality({k \in 1..Len(environment[name]) :
                                        Char(environment[name], k) = ":"})
            ELSE 0
    IN  2 * (segments("CPATH") + segments("C_INCLUDE_PATH")
                + segments("CPLUS_INCLUDE_PATH") + segments("OBJC_INCLUDE_PATH"))

\* the arguments of an entry before the tokens that stand for the environment
Original(arguments, environment) ==
    SubSeq(arguments, 1, Len(arguments) - SynthesizedLength(environment))

\* C13: of two commands that differ in the environment only, the classified
\* flags and with them the compilation pass decision, the number and order
\* of the entries, and file, directory, output and the arguments before the
\* synthesized tail of each entry are the same.
C13_EnvironmentOnlyInTail ==
    (Done /\ earlier # <<>>) =>
        LET first == earlier[1]
        IN  ( /\ first.command.program = command.program
              /\ first.command.arguments = command.arguments
              /\ first.command.working_dir = command.working_dir )
            => /\ flags = first.flags
               /\ failed = first.failed
               /\ Len(entries) = Len(first.entries)
               /\ \A i \in 1..Len(entries) :
                    /\ entries[i].file = first.entries[i].file
                    /\ entries[i].directory = first.entries[i].directory
                    /\ entries[i].output = first.entries[i].output
                    /\ Original(entries[i].arguments, command.environment)
                            = Original(first.entries[i].arguments, first.command.environment)

C13_Witness ==
    /\ Done
    /\ earlier # <<>>
    /\ command.arguments = <<"a.c", "b.c">>
    /\ earlier[1].command.arguments = <<"a.c", "b.c">>
    /\ DOMAIN earlier[1].command.environment = {"CPATH", "CPLUS_INCLUDE_PATH", "HOME"}
    /\ earlier[1].command.environment["CPATH"] = "/usr/x:/usr/y"
    /\ DOMAIN command.environment = {"OBJC_INCLUDE_PATH"}
    /\ Len(entries) = 2
    /\ entries[2].arguments = <<"cc", "-c", "b.c", "-isystem", "/objc", "-isystem", "/o2">>
    /\ earlier[1].entries[2].arguments
            = <<"cc", "-c", "b.c", "-I", "/usr/x", "-I", "/usr/y",
                "-I", "/cp", "-I", ".", "-I", "/cq">>
====
